---- MODULE Spec2Model ----
(***************************************************************************)
(* Byte-level model of pygen's COFF object-file generator (src/pygen.py). *)
(* A byte is a number in 0..255, a bytes/bytearray/str value is a          *)
(* sequence of bytes, and struct.pack is modelled in the little-endian     *)
(* native layout of the x86-64 hosts the generator targets.                *)
(***************************************************************************)
EXTENDS Integers, Sequences, FiniteSets, TLC

\* ---------------------------------------------------------------- bounds
MaxSections == 2
MaxData == 5
MaxRelocs == 1
MaxSymbols == 2
MaxCalls == 5

\* ------------------------------------------------------ program constants
SizeOfHeader == 20
SizeOfSection == 40
SizeOfSymbol == 18
SizeOfRelocation == 10
MachineAMD64 == 34404
MachineI386 == 332
StorageExternal == 2
UShortLimit == 65536

\* ----------------------------------------------------------- input values
\* ".text", ".rdata"
SectionNames == { <<46, 116, 101, 120, 116>>, <<46, 114, 100, 97, 116, 97>> }
\* "main" (short, inline) and "long_name" (9 characters, overflows)
ShortName == <<109, 97, 105, 110>>
LongName == <<108, 111, 110, 103, 95, 110, 97, 109, 101>>
SymbolNames == { ShortName, LongName }
\* "s"
StringArgs == { <<115>> }
\* push rbp; mov rbp, rsp / call rel32 fragments
Chunks == { <<85, 72>>, <<137, 229, 195>> }
Characteristics == { 1610612768 }
RelocArgs == { [VirtualAddress |-> 1, SymbolTableIndex |-> 1, Type |-> 4] }
Times == { 1, 2 }
InitTimes == { 1 }

VARIABLES calls, sections, symbols, strings, header, lastOp, args, ret, out, raised

vars == <<calls, sections, symbols, strings, header, lastOp, args, ret, out, raised>>

\* ------------------------------------------------------------ byte helpers
Min(a, b) == IF a < b THEN a ELSE b

Zeros(n) == [i \in 1..n |-> 0]

\* struct.pack of one unsigned integer of w bytes
PackUInt(v, w) == [i \in 1..w |-> (v \div (256 ^ (i - 1))) % 256]

\* bytes.ljust(8, b"\x00")
Ljust8(s) == IF Len(s) < 8 THEN s \o Zeros(8 - Len(s)) ELSE s

\* struct "8s": exactly 8 bytes, cut or zero-padded
Pack8s(s) == Ljust8(SubSeq(s, 1, Min(8, Len(s))))

\* bytearray slice assignment  buf[a:b] = v   (0-based, a <= b)
SetSlice(buf, a, b, v) ==
    SubSeq(buf, 1, Min(a, Len(buf))) \o v \o SubSeq(buf, Min(b, Len(buf)) + 1, Len(buf))

\* the unsigned little-endian integer of w bytes at 0-based offset off
RECURSIVE ReadUInt(_, _, _)
ReadUInt(buf, off, w) ==
    IF w = 0 THEN 0 ELSE buf[off + 1] + 256 * ReadUInt(buf, off + 1, w - 1)

\* ------------------------------------------------------------ record packs
\* COFFRelocation.pack, "IIH"
RelocationPack(r) ==
    PackUInt(r.VirtualAddress, 4) \o PackUInt(r.SymbolTableIndex, 4) \o PackUInt(r.Type, 2)

\* the section header packed without the alignment padding (38 bytes)
SectionPackUnaligned(s) ==
    Pack8s(s.name)
        \o PackUInt(Len(s.data), 4) \o PackUInt(s.VirtualAddress, 4)
        \o PackUInt(Len(s.data), 4) \o PackUInt(0, 4)
        \o PackUInt(0, 4) \o PackUInt(0, 2)
        \o PackUInt(0, 2) \o PackUInt(Len(s.relocations), 2)
        \o PackUInt(s.characteristics, 4)

\* COFFSection.pack, "8sIIIIIHHHI": native alignment pads 2 bytes before the last I
SectionPack(s) ==
    Pack8s(s.name)
        \o PackUInt(Len(s.data), 4) \o PackUInt(s.VirtualAddress, 4)
        \o PackUInt(Len(s.data), 4) \o PackUInt(0, 4)
        \o PackUInt(0, 4) \o PackUInt(0, 2)
        \o PackUInt(0, 2) \o PackUInt(Len(s.relocations), 2)
        \o Zeros(2)
        \o PackUInt(s.characteristics, 4)

\* the file header with the symbol count and the symbol-table pointer swapped
HeaderPackSwapped(h) ==
    PackUInt(h.Machine, 2) \o PackUInt(h.NumberOfSections, 2)
        \o PackUInt(h.TimeDateStamp, 4) \o PackUInt(h.NumberOfSymbols, 4)
        \o PackUInt(h.PointerToSymbolTable, 4) \o PackUInt(h.SizeOfOptionalHeader, 2)
        \o PackUInt(h.Characteristics, 2)

\* COFFHeader.pack, "HHIIIHH" (the caller has already stored the fresh timestamp)
HeaderPack(h) ==
    PackUInt(h.Machine, 2) \o PackUInt(h.NumberOfSections, 2)
        \o PackUInt(h.TimeDateStamp, 4) \o PackUInt(h.PointerToSymbolTable, 4)
        \o PackUInt(h.NumberOfSymbols, 4) \o PackUInt(h.SizeOfOptionalHeader, 2)
        \o PackUInt(h.Characteristics, 2)

\* string() that forgets to rewrite the 4-byte length prefix
StringStalePrefix(strs, s) ==
    [strings |-> strs \o s \o <<0>>, offset |-> Len(strs)]

\* COFFGenerator.string: the new table and the returned offset
String(strs, s) ==
    LET grown == strs \o s \o <<0>>
    IN [strings |-> SetSlice(grown, 0, 4, PackUInt(Len(grown), 4)), offset |-> Len(strs)]

\* pack() that stores the table length after the append as the name's offset
SymbolPackOffsetAfter(sym, strs) ==
    LET long == Len(sym.name) > 8
        reg == String(strs, sym.name)
        nameBytes == IF long THEN PackUInt(0, 4) \o PackUInt(Len(reg.strings), 4)
                     ELSE Ljust8(sym.name)
    IN [bytes |-> Pack8s(nameBytes) \o PackUInt(sym.value, 4) \o PackUInt(sym.section, 2)
                    \o PackUInt(sym.type_, 2) \o PackUInt(sym.storage, 1) \o PackUInt(0, 1),
        strings |-> IF long THEN reg.strings ELSE strs]

\* COFFSymbol.pack: the record, and the string table as the call leaves it
SymbolPack(sym, strs) ==
    LET long == Len(sym.name) > 8
        reg == String(strs, sym.name)
        nameBytes == IF long THEN PackUInt(0, 4) \o PackUInt(reg.offset, 4)
                     ELSE Ljust8(sym.name)
    IN [bytes |-> Pack8s(nameBytes) \o PackUInt(sym.value, 4) \o PackUInt(sym.section, 2)
                    \o PackUInt(sym.type_, 2) \o PackUInt(sym.storage, 1) \o PackUInt(0, 1),
        strings |-> IF long THEN reg.strings ELSE strs]

\* ------------------------------------------------------------------- state
NewSection(name, characteristics) ==
    [name |-> name, relocations |-> <<>>, VirtualAddress |-> 0,
     characteristics |-> characteristics, data |-> <<>>]

NewHeader(t) ==
    [Machine |-> 0, TimeDateStamp |-> t, NumberOfSections |-> 0,
     PointerToSymbolTable |-> 0, NumberOfSymbols |-> 0,
     SizeOfOptionalHeader |-> 0, Characteristics |-> 0]

NoArgs == [index |-> 0, bytes |-> <<>>]

\* COFFGenerator.__init__
Init ==
    /\ calls = 0
    /\ sections = <<>>
    /\ symbols = <<>>
    /\ strings = <<4, 0, 0, 0>>
    /\ \E is64bit \in BOOLEAN, t \in InitTimes :
           header = [NewHeader(t) EXCEPT !.Machine = IF is64bit THEN MachineAMD64 ELSE MachineI386]
    /\ lastOp = "init"
    /\ args = NoArgs
    /\ ret = 0
    /\ out = <<>>
    /\ raised = FALSE

\* ---------------------------------------------------- COFFGenerator.emit
\* sectionHeaders[name] = offset: a dict keyed by the section's name
SetHeader(hdrs, name, off) ==
    [n \in (DOMAIN hdrs) \cup {name} |-> IF n = name THEN off ELSE hdrs[n]]

\* first loop: every section's header record, and its offset under its name
RECURSIVE PassHeaders(_, _, _, _)
PassHeaders(secs, i, result, hdrs) ==
    IF i > Len(secs) THEN [result |-> result, sectionHeaders |-> hdrs]
    ELSE PassHeaders(secs, i + 1, result \o SectionPack(secs[i]),
                     SetHeader(hdrs, secs[i].name, Len(result)))

\* the patch of the raw-data pointer, struct.pack("I", len(result)) over 4 bytes
PatchDataPointer(result, hdr) ==
    SetSlice(result, hdr + 20, hdr + 24, PackUInt(Len(result), 4))

\* second loop: patch the raw-data pointer, then the section's data
RECURSIVE PassData(_, _, _, _)
PassData(secs, i, result, hdrs) ==
    IF i > Len(secs) THEN result
    ELSE PassData(secs, i + 1,
                  PatchDataPointer(result, hdrs[secs[i].name]) \o secs[i].data, hdrs)

\* every relocation record of one section
RECURSIVE PackRelocations(_, _)
PackRelocations(relocs, k) ==
    IF k > Len(relocs) THEN <<>>
    ELSE RelocationPack(relocs[k]) \o PackRelocations(relocs, k + 1)

\* the header whose relocation pointer a section patches
RelocHeader(hdrs, sec) == hdrs[sec.name]

\* third loop: struct.pack("H", len(result)) over 2 bytes, then the records;
\* struct.error when len(result) does not fit an unsigned short
RECURSIVE PassRelocs(_, _, _, _)
PassRelocs(secs, i, result, hdrs) ==
    IF i > Len(secs) THEN [raised |-> FALSE, result |-> result]
    ELSE IF Len(secs[i].relocations) > 0
         THEN IF Len(result) >= UShortLimit
              THEN [raised |-> TRUE, result |-> result]
              ELSE LET hdr == RelocHeader(hdrs, secs[i])
                   IN PassRelocs(secs, i + 1,
                                 SetSlice(result, hdr + 24, hdr + 26, PackUInt(Len(result), 2))
                                     \o PackRelocations(secs[i].relocations, 1),
                                 hdrs)
         ELSE PassRelocs(secs, i + 1, result, hdrs)

\* fourth loop: every symbol record; packing a long name appends it to the table
RECURSIVE PassSymbols(_, _, _, _)
PassSymbols(syms, k, result, strs) ==
    IF k > Len(syms) THEN [result |-> result, strings |-> strs]
    ELSE LET p == SymbolPack(syms[k], strs)
         IN PassSymbols(syms, k + 1, result \o p.bytes, p.strings)

\* the whole of emit() up to the header overwrite, for a clock reading t
EmitBody(secs, syms, strs, hdr, t) ==
    LET p1 == PassHeaders(secs, 1, Zeros(SizeOfHeader), <<>>)
        p2 == PassData(secs, 1, p1.result, p1.sectionHeaders)
        p3 == PassRelocs(secs, 1, p2, p1.sectionHeaders)
        p4 == PassSymbols(syms, 1, p3.result, strs)
        h == [hdr EXCEPT !.PointerToSymbolTable = Len(p3.result), !.TimeDateStamp = t]
    IN IF p3.raised
       THEN [raised |-> TRUE, bytes |-> <<>>, strings |-> strs, header |-> hdr]
       ELSE [raised |-> FALSE,
             bytes |-> SetSlice(p4.result \o p4.strings, 0, SizeOfHeader, HeaderPack(h)),
             strings |-> p4.strings, header |-> h]

\* ----------------------------------------------------------------- actions
\* COFFGenerator.section
Section(name, characteristics) ==
    /\ sections' = Append(sections, NewSection(name, characteristics))
    /\ header' = [header EXCEPT !.NumberOfSections = @ + 1]
    /\ lastOp' = "section"
    /\ args' = [index |-> Len(sections) + 1, bytes |-> name]
    /\ ret' = 0
    /\ out' = <<>>
    /\ raised' = FALSE
    /\ UNCHANGED <<symbols, strings>>

\* emit() that reads the offset after extending the data
SectionEmitOffsetAfter(data, b) == [data |-> data \o b, offset |-> Len(data \o b)]

\* COFFSection.emit: the data after the call and the returned offset
SectionEmit(data, b) == [data |-> data \o b, offset |-> Len(data)]

\* section.emit(b) on the i-th registered section
EmitBytes(i, b) ==
    LET r == SectionEmit(sections[i].data, b)
    IN /\ sections' = [sections EXCEPT ![i].data = r.data]
       /\ lastOp' = "append"
       /\ args' = [index |-> i, bytes |-> b]
       /\ ret' = r.offset
       /\ out' = <<>>
       /\ raised' = FALSE
       /\ UNCHANGED <<symbols, strings, header>>

\* COFFSection.reloc on the i-th registered section
Reloc(i, r) ==
    /\ sections' = [sections EXCEPT ![i].relocations = Append(@, r)]
    /\ lastOp' = "reloc"
    /\ args' = [index |-> i, bytes |-> <<>>]
    /\ ret' = 0
    /\ out' = <<>>
    /\ raised' = FALSE
    /\ UNCHANGED <<symbols, strings, header>>

\* COFFGenerator.symbol
Symbol(name, value, section, type_) ==
    /\ symbols' = Append(symbols, [name |-> name, value |-> value, section |-> section,
                                   type_ |-> type_, storage |-> StorageExternal])
    /\ header' = [header EXCEPT !.NumberOfSymbols = @ + 1]
    /\ lastOp' = "symbol"
    /\ args' = [index |-> Len(symbols) + 1, bytes |-> name]
    /\ ret' = 0
    /\ out' = <<>>
    /\ raised' = FALSE
    /\ UNCHANGED <<sections, strings>>

\* COFFGenerator.string called by the user
AddString(s) ==
    LET r == String(strings, s)
    IN /\ strings' = r.strings
       /\ lastOp' = "string"
       /\ args' = [index |-> 0, bytes |-> s]
       /\ ret' = r.offset
       /\ out' = <<>>
       /\ raised' = FALSE
       /\ UNCHANGED <<sections, symbols, header>>

\* COFFGenerator.emit, the clock reading t
Emit(t) ==
    LET e == EmitBody(sections, symbols, strings, header, t)
    IN /\ strings' = e.strings
       /\ header' = e.header
       /\ out' = e.bytes
       /\ raised' = e.raised
       /\ lastOp' = "emit"
       /\ args' = NoArgs
       /\ ret' = 0
       /\ UNCHANGED <<sections, symbols>>

\* ------------------------------------------------------------ state machine
\* one more call of the caller's script, which makes at most MaxCalls calls
Call == calls < MaxCalls /\ calls' = calls + 1

DoSection == \E n \in SectionNames, c \in Characteristics :
    Call /\ Len(sections) < MaxSections /\ Section(n, c)

DoEmitBytes == \E i \in 1..Len(sections), b \in Chunks :
    Call /\ Len(sections[i].data) + Len(b) <= MaxData /\ EmitBytes(i, b)

DoReloc == \E i \in 1..Len(sections), r \in RelocArgs :
    Call /\ Len(sections[i].relocations) < MaxRelocs /\ Reloc(i, r)

DoSymbol == \E n \in SymbolNames :
    Call /\ Len(symbols) < MaxSymbols /\ Symbol(n, 0, 1, 32)

DoString == \E s \in StringArgs : Call /\ AddString(s)

DoEmit == \E t \in Times : Call /\ Emit(t)

Next == DoSection \/ DoEmitBytes \/ DoReloc \/ DoSymbol \/ DoString \/ DoEmit

Spec == Init /\ [][Next]_vars

\* ------------------------------------------------- reading an emitted buffer
\* the last call was emit() and it returned a buffer
AfterEmit == lastOp = "emit" /\ ~raised

\* the data bytes of the sections registered before the i-th
RECURSIVE DataBefore(_, _)
DataBefore(secs, i) ==
    IF i <= 1 THEN 0 ELSE Len(secs[i - 1].data) + DataBefore(secs, i - 1)

\* the relocations of the sections registered before the i-th
RECURSIVE RelocsBefore(_, _)
RelocsBefore(secs, i) ==
    IF i <= 1 THEN 0 ELSE Len(secs[i - 1].relocations) + RelocsBefore(secs, i - 1)

TotalData == DataBefore(sections, Len(sections) + 1)
TotalRelocs == RelocsBefore(sections, Len(sections) + 1)

\* where the regions of the buffer begin, from the sizes of what precedes them
HeaderOffset(i) == SizeOfHeader + SizeOfSection * (i - 1)
DataBegin(i) == SizeOfHeader + SizeOfSection * Len(sections) + DataBefore(sections, i)
RelocBegin(i) ==
    SizeOfHeader + SizeOfSection * Len(sections) + TotalData
        + SizeOfRelocation * RelocsBefore(sections, i)
SymbolsBegin ==
    SizeOfHeader + SizeOfSection * Len(sections) + TotalData + SizeOfRelocation * TotalRelocs
StringsBegin == SymbolsBegin + SizeOfSymbol * Len(symbols)

\* the zero-terminated string at offset o of a table
RECURSIVE CString(_, _)
CString(tab, o) ==
    IF o >= Len(tab) \/ tab[o + 1] = 0 THEN <<>> ELSE <<tab[o + 1]>> \o CString(tab, o + 1)

IsLong(name) == Len(name) > 8

\* ------------------------------------------------------------------ claims

\* C1 (as claimed): after emit(), the data-pointer field of every section's
\* header, at 20 + 40*i + 20, is the offset at which that section's data begins.
C1_DataPointerFidelity ==
    AfterEmit =>
        \A i \in 1..Len(sections) :
            /\ ReadUInt(out, HeaderOffset(i) + 20, 4) = DataBegin(i)
            /\ SubSeq(out, DataBegin(i) + 1, DataBegin(i) + Len(sections[i].data))
                   = sections[i].data

\* C2 (as claimed): after emit(), the relocation-pointer field of every
\* section's header, at 20 + 40*i + 24, is the offset of the section's first
\* relocation record, and 0 for a section without relocations.
C2_RelocPointerFidelity ==
    AfterEmit =>
        \A i \in 1..Len(sections) :
            ReadUInt(out, HeaderOffset(i) + 24, 4)
                = IF Len(sections[i].relocations) > 0 THEN RelocBegin(i) ELSE 0

\* C3 (as claimed): an emit() that directly follows an emit() returns a buffer
\* of the same length that differs at most in the timestamp bytes 4..7.
C3_DeterminismModuloTimestamp ==
    [][(AfterEmit /\ AfterEmit') =>
          /\ Len(out') = Len(out)
          /\ \A k \in 1..Len(out) : k \notin 5..8 => out'[k] = out[k]]_vars

\* C4 (as claimed): emit() leaves the sections, the symbols and the string
\* table as they were; only header fields change.
C4_EmitReadOnly ==
    [][lastOp' = "emit" =>
          /\ sections' = sections
          /\ symbols' = symbols
          /\ strings' = strings]_vars

\* C5 (as claimed): registering a symbol with a name longer than 8 appends the
\* name and a zero byte to the string table at once, a shorter name leaves the
\* table alone, and the header's symbol count grows by one.
C5_SymbolRegistersName ==
    [][lastOp' = "symbol" =>
          /\ header'.NumberOfSymbols = header.NumberOfSymbols + 1
          /\ IF IsLong(args'.bytes)
             THEN /\ Len(strings') = Len(strings) + Len(args'.bytes) + 1
                  /\ CString(strings', Len(strings)) = args'.bytes
             ELSE strings' = strings]_vars

\* the first call on a generator built with is64bit=True was emit()
FreshEmit == AfterEmit /\ calls = 1 /\ header.Machine = MachineAMD64

\* the header fields the empty-generator scenario names
EmptyHeaderFields ==
    /\ ReadUInt(out, 0, 2) = MachineAMD64
    /\ ReadUInt(out, 2, 2) = 0
    /\ ReadUInt(out, 4, 4) \in Times
    /\ ReadUInt(out, 8, 4) = SizeOfHeader
    /\ ReadUInt(out, 12, 4) = 0
    /\ ReadUInt(out, 16, 2) = 0
    /\ ReadUInt(out, 18, 2) = 0

\* C6 (as claimed): emit() on a fresh 64-bit generator returns exactly 20 bytes.
C6_EmptyIsTwentyBytes ==
    FreshEmit => Len(out) = SizeOfHeader /\ EmptyHeaderFields

\* C6 (amended): emit() on a fresh 64-bit generator returns 24 bytes: the
\* 20-byte header with machine 0x8664, no sections, no symbols, symbol-table
\* pointer 20, then the empty string table, which is its own length 4.
C6_EmptyIsHeaderAndTable ==
    FreshEmit =>
        /\ Len(out) = SizeOfHeader + 4
        /\ EmptyHeaderFields
        /\ SubSeq(out, SizeOfHeader + 1, SizeOfHeader + 4) = <<4, 0, 0, 0>>

C6_Witness == FreshEmit /\ Len(out) > 0

\* one section with 5 data bytes and no relocation, one short-named symbol,
\* nothing in the string table
ScenarioText ==
    /\ Len(sections) = 1
    /\ Len(sections[1].data) = 5
    /\ Len(sections[1].relocations) = 0
    /\ Len(symbols) = 1
    /\ ~IsLong(symbols[1].name)
    /\ Len(strings) = 4

C8_NameOverflow ==
    AfterEmit =>
        LET symOff == ReadUInt(out, 8, 4)
            strOff == symOff + SizeOfSymbol * ReadUInt(out, 12, 4)
            tab == SubSeq(out, strOff + 1, Len(out))
        IN \A k \in 1..Len(symbols) :
               IsLong(symbols[k].name) =>
                   LET rec == symOff + SizeOfSymbol * (k - 1)
                       o == ReadUInt(out, rec + 4, 4)
                   IN /\ ReadUInt(out, rec, 4) = 0
                      /\ 4 <= o
                      /\ o < Len(tab)
                      /\ o + Len(symbols[k].name) < Len(tab)
                      /\ CString(tab, o) = symbols[k].name

\* a later emit(): the table already held the names when the records were packed
C8_Witness ==
    /\ AfterEmit
    /\ Len(symbols) = 2
    /\ IsLong(symbols[1].name) /\ IsLong(symbols[2].name)
    /\ Len(strings) > 4 + 2 * (Len(LongName) + 1)

\* the first 4 bytes of the string table are its length
PrefixLaw == Len(strings) >= 4 /\ ReadUInt(strings, 0, 4) = Len(strings)

\* C9: the string table starts as its 4-byte prefix, its first 4 bytes are its
\* length in every state, and string(s) returns the length before the append
\* and adds len(s) + 1 bytes.
C9_StringTablePrefix ==
    /\ (lastOp = "init" => Len(strings) = 4)
    /\ [](PrefixLaw)
    /\ [][lastOp' = "string" =>
             /\ ret' = Len(strings)
             /\ Len(strings') = Len(strings) + Len(args'.bytes) + 1
             /\ CString(strings', ret') = args'.bytes]_vars

\* the table after string(), symbol packing and string() again
C9_Witness ==
    /\ lastOp = "string"
    /\ ret > 4 + Len(LongName) + 1
    /\ Len(strings) = ret + Len(args.bytes) + 1

\* C10: section.emit(b) returns the length the data had, appends b and
\* nothing else, and touches neither the relocations nor another section.
C10_AppendOnly ==
    [][lastOp' = "append" =>
          LET i == args'.index
              b == args'.bytes
          IN /\ ret' = Len(sections[i].data)
             /\ Len(sections') = Len(sections)
             /\ sections'[i].data = sections[i].data \o b
             /\ SubSeq(sections'[i].data, ret' + 1, ret' + Len(b)) = b
             /\ sections'[i].relocations = sections[i].relocations
             /\ \A j \in 1..Len(sections) : j # i => sections'[j] = sections[j]
             /\ symbols' = symbols /\ strings' = strings /\ header' = header]_vars

\* a second append: the returned offset is the length of the first
C10_Witness ==
    /\ lastOp = "append"
    /\ ret > 0
    /\ Len(sections[args.index].data) = ret + Len(args.bytes)

====
